---------------------------- MODULE Spec2Model ----------------------------
(***************************************************************************)
(* Model of axpositioning: the anchor-relative geometry of PositioningAxes *)
(* (src/axpositioning/axpositioning.py) and the AxesSet / editor actions   *)
(* built on it (src/axpositioning/gui/model.py, gui/main.py).              *)
(*                                                                         *)
(* Numbers are exact rationals <<n, d>> in lowest terms with d > 0: the    *)
(* arithmetic of the code is modelled without floating-point rounding.     *)
(* An operation whose arithmetic would divide by zero (a zero width or     *)
(* height in aspect / axaspect) is outside the model: its action is        *)
(* disabled in such a state.                                               *)
(*                                                                         *)
(* Specifications:                                                         *)
(*   Spec          one PositioningAxes object p driven through its API     *)
(*   SpecAnchor    set_anchor called with every kind of value              *)
(*   SpecEditor    an AxesSet driven through the editor's operations       *)
(*   SpecActions   the alignment and sizing actions of the action menu     *)
(*   SpecNames     naming and ordering of the entries                      *)
(*   SpecMove      rows of the table dragged to a new place                *)
(*   SpecCapacity  sets that use nearly all candidate names                *)
(*   SpecPlace     placing and splitting rectangles                        *)
(*   SpecProperty  set_property                                            *)
(*   SpecSession   an editing session that uses every editor operation     *)
(*   SpecStream    the editor run as a module, alone or as a subprocess    *)
(***************************************************************************)
EXTENDS Integers, Sequences, FiniteSets

VARIABLES
    figsize,    \* figure.get_size_inches(): <<fw, fh>>
    p,          \* Spec: the PositioningAxes object
    ret,        \* Spec: outcome of the last call on p
    axes,       \* SpecEditor: AxesSet as a sequence of [name, a]
    anchor,     \* SpecEditor: AxesSet.anchor
    last,       \* the last call and its arguments
    pre,        \* the state the last call started from
    steps,      \* number of calls made so far
    proc        \* SpecStream: the calling process, the editor process and
                \* the pipes between them

vars == <<figsize, p, ret, axes, anchor, last, pre, steps, proc>>

----------------------------------------------------------------------------
(* Bounds of the model *)

MaxSteps == 2

MaxSizes == 2

MaxAxes == 3

MaxOps == 3

\* operations on a nearly full AxesSet
MaxFillOps == 3

\* operations in a session of placing and splitting
MaxPlaceOps == 2

\* operations in a session of property edits
MaxPropOps == 2

----------------------------------------------------------------------------
(* Rational arithmetic *)

Abs(n) == IF n < 0 THEN -n ELSE n

RECURSIVE GCD(_, _)
GCD(a, b) == IF b = 0 THEN a ELSE GCD(b, a % b)

Rat(n, d) ==
    LET g == GCD(Abs(n), Abs(d))
        s == IF d < 0 THEN -1 ELSE 1
    IN  <<(s * n) \div g, (s * d) \div g>>

Add(a, b) == Rat(a[1] * b[2] + b[1] * a[2], a[2] * b[2])

Sub(a, b) == Rat(a[1] * b[2] - b[1] * a[2], a[2] * b[2])

Mul(a, b) == Rat(a[1] * b[1], a[2] * b[2])

Div(a, b) == Rat(a[1] * b[2], a[2] * b[1])

Lt(a, b) == a[1] * b[2] < b[1] * a[2]

Ge(a, b) == ~Lt(a, b)

Zero == Rat(0, 1)

One == Rat(1, 1)

IsZero(a) == a[1] = 0

RatMin(S) == CHOOSE m \in S : \A v \in S : ~Lt(v, m)

RatMax(S) == CHOOSE m \in S : \A v \in S : ~Lt(m, v)

----------------------------------------------------------------------------
(* matplotlib.transforms.Bbox as used by PositioningAxes *)

AnchorNames == {"C", "SW", "S", "SE", "E", "NE", "N", "NW", "W"}

Half == Rat(1, 2)

coefs(a) ==
    CASE a = "C"  -> <<Half, Half>>
      [] a = "SW" -> <<Zero, Zero>>
      [] a = "S"  -> <<Half, Zero>>
      [] a = "SE" -> <<One, Zero>>
      [] a = "E"  -> <<One, Half>>
      [] a = "NE" -> <<One, One>>
      [] a = "N"  -> <<Half, One>>
      [] a = "NW" -> <<Zero, One>>
      [] a = "W"  -> <<Zero, Half>>

\* Bbox.from_bounds: the stored corner points <<x0, y0, x1, y1>>
from_bounds(b) == <<b[1], b[2], Add(b[1], b[3]), Add(b[2], b[4])>>

----------------------------------------------------------------------------
(* PositioningAxes: a record [pos, anchor, locked, selected] *)

\* bounds getter: (xll, yll, w, h) from the stored corner points
bounds(a) ==
    <<a.pos[1], a.pos[2], Sub(a.pos[3], a.pos[1]), Sub(a.pos[4], a.pos[2])>>

\* bounds setter
set_bounds(a, v) == [a EXCEPT !.pos = from_bounds(v)]

get_anchor(a) == a.anchor

\* set_anchor that also moves the rectangle so that x reads as before
set_anchor_KeepsX(a, v) ==
    LET c  == IF v \in AnchorNames THEN coefs(v) ELSE v
        b  == bounds(a)
        x0 == Add(b[1], Mul(b[3], get_anchor(a)[1]))
    IN  [a EXCEPT !.anchor = c,
                  !.pos = from_bounds(<<Sub(x0, Mul(b[3], c[1])), b[2], b[3], b[4]>>)]

set_anchor(a, v) ==
    [a EXCEPT !.anchor = IF v \in AnchorNames THEN coefs(v) ELSE v]

get_w(a) == bounds(a)[3]

get_h(a) == bounds(a)[4]

\* x2xll scaled by the height instead of the width
x2xll_UsesHeight(a, x) == Sub(x, Mul(get_h(a), get_anchor(a)[1]))

x2xll(a, x) == Sub(x, Mul(get_w(a), get_anchor(a)[1]))

\* xll2x without the anchor offset
xll2x_NoAnchor(a, xll) == xll

xll2x(a, xll) == Add(xll, Mul(get_w(a), get_anchor(a)[1]))

y2yll(a, y) == Sub(y, Mul(get_h(a), get_anchor(a)[2]))

yll2y(a, yll) == Add(yll, Mul(get_h(a), get_anchor(a)[2]))

get_x(a) == xll2x(a, bounds(a)[1])

get_y(a) == yll2y(a, bounds(a)[2])

set_x(a, x) ==
    LET b == bounds(a)
        xll == x2xll(a, x)
    IN  set_bounds(a, <<xll, b[2], b[3], b[4]>>)

set_y(a, y) ==
    LET b == bounds(a)
        yll == y2yll(a, y)
    IN  set_bounds(a, <<b[1], yll, b[3], b[4]>>)

figaspect(fs) == Div(fs[1], fs[2])

aspect(a, fs) == Mul(figaspect(fs), Div(get_w(a), get_h(a)))

axaspect(a, fs) == Div(figaspect(fs), aspect(a, fs))

\* aspect and axaspect divide by h and by aspect = figaspect * w / h
AspectDefined(a) == ~IsZero(get_h(a))

AxaspectDefined(a) == ~IsZero(get_h(a)) /\ ~IsZero(get_w(a))

\* w setter that leaves xll where it was
set_w_NoShift(a, w, fs) ==
    LET b == bounds(a)
    IN  IF a.locked
        THEN LET h   == Div(w, axaspect(a, fs))
                 yll == Add(b[2], Mul(get_anchor(a)[2], Sub(b[4], h)))
             IN  set_bounds(a, <<b[1], yll, w, h>>)
        ELSE set_bounds(a, <<b[1], b[2], w, b[4]>>)

\* w setter that, with the aspect locked, leaves yll where it was
set_w_StaleY(a, w, fs) ==
    LET b   == bounds(a)
        xll == Add(b[1], Mul(get_anchor(a)[1], Sub(b[3], w)))
    IN  IF a.locked
        THEN set_bounds(a, <<xll, b[2], w, Div(w, axaspect(a, fs))>>)
        ELSE set_bounds(a, <<xll, b[2], w, b[4]>>)

set_w(a, w, fs) ==
    LET b    == bounds(a)
        xll  == Add(b[1], Mul(get_anchor(a)[1], Sub(b[3], w)))
    IN  IF a.locked
        THEN LET h0  == b[4]
                 h   == Div(w, axaspect(a, fs))
                 yll == Add(b[2], Mul(get_anchor(a)[2], Sub(h0, h)))
             IN  set_bounds(a, <<xll, yll, w, h>>)
        ELSE set_bounds(a, <<xll, b[2], w, b[4]>>)

set_h(a, h, fs) ==
    LET b    == bounds(a)
        yll  == Add(b[2], Mul(get_anchor(a)[2], Sub(b[4], h)))
    IN  IF a.locked
        THEN LET w0  == b[3]
                 w   == Mul(h, axaspect(a, fs))
                 xll == Add(b[1], Mul(get_anchor(a)[1], Sub(w0, w)))
             IN  set_bounds(a, <<xll, yll, w, h>>)
        ELSE set_bounds(a, <<b[1], yll, b[3], h>>)

\* the setters read axaspect only when the aspect is locked
SizeSetterDefined(a) == a.locked => AxaspectDefined(a)

lock_aspect(a, b) == [a EXCEPT !.locked = b]

\* set_aspect_ratio with the ratio inverted
set_aspect_ratio_Inverted(a, A, fix_height, fs) ==
    LET axa == Div(figaspect(fs), A)
    IN  IF fix_height
        THEN set_w(a, Mul(get_h(a), axa), fs)
        ELSE set_h(a, Div(get_w(a), axa), fs)

set_aspect_ratio(a, A, fix_height, fs) ==
    LET axa == Div(A, figaspect(fs))
    IN  IF fix_height
        THEN set_w(a, Mul(get_h(a), axa), fs)
        ELSE set_h(a, Div(get_w(a), axa), fs)

\* aspect setter that holds the height and solves the width
set_aspect_FixHeight(a, v, fs) == set_aspect_ratio(a, v, TRUE, fs)

set_aspect(a, v, fs) == set_aspect_ratio(a, v, FALSE, fs)

\* PositioningAxes(fig, bounds, lock_aspect, anchor)
NewAxes(b, lock, anc) ==
    set_anchor([pos |-> from_bounds(b), anchor |-> coefs("C"),
                locked |-> lock, selected |-> FALSE], anc)

\* split that lets spacing = size through
split_StrictCheck(a, ratio, spacing, wsplit, fs) ==
    LET pos   == IF wsplit THEN get_x(a) ELSE get_y(a)
        size  == IF wsplit THEN get_w(a) ELSE get_h(a)
        size1 == Mul(Sub(size, spacing), ratio)
        size2 == Mul(Sub(size, spacing), Sub(One, ratio))
        pos2  == Add(Add(pos, size1), spacing)
        newbounds == IF wsplit THEN <<pos2, get_y(a), size2, get_h(a)>>
                               ELSE <<get_x(a), pos2, get_w(a), size2>>
        self1 == IF wsplit THEN set_w(a, size1, fs) ELSE set_h(a, size1, fs)
    IN  IF Lt(size, spacing)
        THEN [raised |-> TRUE, self |-> a, new |-> <<>>]
        ELSE [raised |-> FALSE, self |-> self1,
              new |-> <<NewAxes(newbounds, a.locked, get_anchor(self1))>>]

\* split: [raised, self, new]; new is <<>> when ValueError is raised
split(a, ratio, spacing, wsplit, fs) ==
    LET pos   == IF wsplit THEN get_x(a) ELSE get_y(a)
        size  == IF wsplit THEN get_w(a) ELSE get_h(a)
        size1 == Mul(Sub(size, spacing), ratio)
        size2 == Mul(Sub(size, spacing), Sub(One, ratio))
        pos2  == Add(Add(pos, size1), spacing)
        newbounds == IF wsplit THEN <<pos2, get_y(a), size2, get_h(a)>>
                               ELSE <<get_x(a), pos2, get_w(a), size2>>
        self1 == IF wsplit THEN set_w(a, size1, fs) ELSE set_h(a, size1, fs)
    IN  IF Ge(spacing, size)
        THEN [raised |-> TRUE, self |-> a, new |-> <<>>]
        ELSE [raised |-> FALSE, self |-> self1,
              new |-> <<NewAxes(newbounds, a.locked, get_anchor(self1))>>]

\* split raises before it assigns, or else assigns w or h
SplitDefined(a, spacing, wsplit) ==
    \/ Ge(spacing, IF wsplit THEN get_w(a) ELSE get_h(a))
    \/ SizeSetterDefined(a)

----------------------------------------------------------------------------
(* Inputs *)

Tenths(k) == Rat(k, 10)

B(xll, yll, w, h) == <<Tenths(xll), Tenths(yll), Tenths(w), Tenths(h)>>

InitBounds == {B(1, 1, 8, 8), B(0, 0, 10, 10), B(2, 1, 4, 6)}

FigSizes == {<<Rat(6, 1), Rat(6, 1)>>, <<Rat(6, 1), Rat(4, 1)>>}

Positions == {Tenths(1), Tenths(5)}

Sizes == {Tenths(2 * k) : k \in 1..MaxSizes}

Aspects == {One, Rat(3, 2)}

Ratios == {Zero, Half, One}

Spacings == {Tenths(1), One, Rat(3, 2)}

NoRet == [raised |-> FALSE, new |-> <<>>]

\* no process has been started
NoProc == [mode |-> "none"]

CanStep == steps < MaxSteps

Snapshot == [p |-> p, figsize |-> figsize, axes |-> axes, anchor |-> anchor]

----------------------------------------------------------------------------
(* Spec: one PositioningAxes object *)

Init ==
    /\ figsize = <<Rat(6, 1), Rat(6, 1)>>
    /\ \E b \in InitBounds, lock \in BOOLEAN, anc \in AnchorNames :
          /\ p = NewAxes(b, lock, anc)
          /\ last = [op |-> "init", args |-> <<b, lock, anc>>]
    /\ ret = NoRet
    /\ axes = <<>>
    /\ anchor = "C"
    /\ pre = [p |-> p, figsize |-> figsize, axes |-> axes, anchor |-> anchor]
    /\ steps = 0
    /\ proc = NoProc

\* the bookkeeping every call on p shares
Called(op, args) ==
    /\ last' = [op |-> op, args |-> args]
    /\ pre' = Snapshot
    /\ steps' = steps + 1
    /\ UNCHANGED <<axes, anchor, proc>>

CallSetAnchor(v) ==
    /\ CanStep
    /\ p' = set_anchor(p, v)
    /\ ret' = NoRet
    /\ Called("set_anchor", <<v>>)
    /\ UNCHANGED figsize

AssignX(v) ==
    /\ CanStep
    /\ p' = set_x(p, v)
    /\ ret' = NoRet
    /\ Called("x", <<v>>)
    /\ UNCHANGED figsize

AssignY(v) ==
    /\ CanStep
    /\ p' = set_y(p, v)
    /\ ret' = NoRet
    /\ Called("y", <<v>>)
    /\ UNCHANGED figsize

AssignW(v) ==
    /\ CanStep
    /\ SizeSetterDefined(p)
    /\ p' = set_w(p, v, figsize)
    /\ ret' = NoRet
    /\ Called("w", <<v>>)
    /\ UNCHANGED figsize

AssignH(v) ==
    /\ CanStep
    /\ SizeSetterDefined(p)
    /\ p' = set_h(p, v, figsize)
    /\ ret' = NoRet
    /\ Called("h", <<v>>)
    /\ UNCHANGED figsize

AssignAspect(v) ==
    /\ CanStep
    /\ SizeSetterDefined(p)
    /\ p' = set_aspect(p, v, figsize)
    /\ ret' = NoRet
    /\ Called("aspect", <<v>>)
    /\ UNCHANGED figsize

CallLockAspect(b) ==
    /\ CanStep
    /\ p' = lock_aspect(p, b)
    /\ ret' = NoRet
    /\ Called("lock_aspect", <<b>>)
    /\ UNCHANGED figsize

CallSplit(ratio, spacing, wsplit) ==
    /\ CanStep
    /\ SplitDefined(p, spacing, wsplit)
    /\ LET r == split(p, ratio, spacing, wsplit, figsize)
       IN  /\ p' = r.self
           /\ ret' = [raised |-> r.raised, new |-> r.new]
    /\ Called("split", <<ratio, spacing, wsplit>>)
    /\ UNCHANGED figsize

\* figure.set_size_inches
SetSizeInches(fs) ==
    /\ CanStep
    /\ figsize' = fs
    /\ ret' = NoRet
    /\ Called("set_size_inches", <<fs>>)
    /\ UNCHANGED p

Next ==
    \/ \E v \in AnchorNames : CallSetAnchor(v)
    \/ \E v \in Positions : AssignX(v)
    \/ \E v \in Positions : AssignY(v)
    \/ \E v \in Sizes : AssignW(v)
    \/ \E v \in Sizes : AssignH(v)
    \/ \E v \in Aspects : AssignAspect(v)
    \/ \E b \in BOOLEAN : CallLockAspect(b)
    \/ \E r \in Ratios, s \in Spacings, ws \in BOOLEAN : CallSplit(r, s, ws)
    \/ \E fs \in FigSizes : SetSizeInches(fs)

Spec == Init /\ [][Next]_vars

----------------------------------------------------------------------------
(* AxesSet (gui/model.py): an ordered mapping, here a sequence of          *)
(* [name, a] entries in collection order                                    *)

\* chr(65), chr(66), ... : the candidate names in scan order; "chr96" stands
\* for chr(96), the backquote, which a TLA+ string cannot hold
Chars ==
    <<"A", "B", "C", "D", "E", "F", "G", "H", "I", "J", "K", "L", "M",
      "N", "O", "P", "Q", "R", "S", "T", "U", "V", "W", "X", "Y", "Z",
      "[", "\\", "]", "^", "_", "chr96",
      "a", "b", "c", "d", "e", "f", "g", "h", "i", "j", "k", "l", "m",
      "n", "o", "p", "q", "r">>

NameRange == 50

chr(c) == Chars[c - 64]

names(s) == [i \in DOMAIN s |-> s[i].name]

values(s) == [i \in DOMAIN s |-> s[i].a]

NameSet(s) == {s[i].name : i \in DOMAIN s}

IndexOf(s, n) == CHOOSE i \in DOMAIN s : s[i].name = n

\* self[name]
Item(s, n) == s[IndexOf(s, n)].a

\* self.pop(name) for a name that is present
pop(s, n) == SelectSeq(s, LAMBDA e : e.name # n)

\* next_axes_name that numbers by the count of entries
next_axes_name_ByCount(s) ==
    IF Len(s) >= NameRange
    THEN [raised |-> TRUE, name |-> ""]
    ELSE [raised |-> FALSE, name |-> chr(65 + Len(s))]

\* next_axes_name that starts over at the first candidate when none is free
next_axes_name_Wraps(s) ==
    LET free == {i \in 0..(NameRange - 1) : chr(65 + i) \notin NameSet(s)}
    IN  IF free = {}
        THEN [raised |-> FALSE, name |-> chr(65)]
        ELSE [raised |-> FALSE,
              name |-> chr(65 + (CHOOSE i \in free : \A k \in free : i <= k))]

\* next_axes_name: [raised, name]
next_axes_name(s) ==
    LET free == {i \in 0..(NameRange - 1) : chr(65 + i) \notin NameSet(s)}
    IN  IF free = {}
        THEN [raised |-> TRUE, name |-> ""]
        ELSE [raised |-> FALSE,
              name |-> chr(65 + (CHOOSE i \in free : \A k \in free : i <= k))]

\* from_position that keeps its arguments as the absolute bounds
from_position_Absolute(x, y, w, h, anc, fs) ==
    NewAxes(<<x, y, w, h>>, FALSE, anc)

\* PositioningAxes.from_position
from_position(x, y, w, h, anc, fs) ==
    LET o0 == NewAxes(<<x, y, w, h>>, FALSE, anc)
        o1 == set_x(o0, x)
        o2 == set_y(o1, y)
        o3 == set_w(o2, w, fs)
    IN  set_h(o3, h, fs)

\* AxesSet.add: [raised, axes]; anc is <<>> for anchor=None
add(s, setanchor, fs, x, y, w, h, anc, apply_anchor) ==
    LET anc1 == IF anc = <<>> THEN setanchor ELSE anc[1]
        n    == next_axes_name(s)
        a    == IF apply_anchor
                THEN from_position(x, y, w, h, anc1, fs)
                ELSE NewAxes(<<x, y, w, h>>, FALSE, anc1)
    IN  IF n.raised
        THEN [raised |-> TRUE, axes |-> s]
        ELSE [raised |-> FALSE,
              axes |-> Append(s, [name |-> n.name, a |-> a])]

\* the loop of change_order that fills the emptied set from data in the
\* order of newnames; data.pop(name) raises KeyError once name is gone
RECURSIVE Refill(_, _, _)
Refill(self, data, newnames) ==
    IF newnames = <<>>
    THEN IF data # <<>>
         THEN [raised |-> TRUE, exc |-> "AssertionError", axes |-> self]
         ELSE [raised |-> FALSE, exc |-> "", axes |-> self]
    ELSE IF Head(newnames) \notin NameSet(data)
         THEN [raised |-> TRUE, exc |-> "KeyError", axes |-> self]
         ELSE Refill(Append(self, [name |-> Head(newnames),
                                   a |-> Item(data, Head(newnames))]),
                     pop(data, Head(newnames)), Tail(newnames))

Range(q) == {q[i] : i \in DOMAIN q}

\* change_order that refills the set in the order it had
change_order_KeepsOrder(s, newnames) ==
    IF NameSet(s) # Range(newnames)
    THEN [raised |-> TRUE, exc |-> "ValueError", axes |-> s]
    ELSE Refill(<<>>, s, names(s))

\* AxesSet.change_order: [raised, exc, axes]
change_order(s, newnames) ==
    IF NameSet(s) # Range(newnames)
    THEN [raised |-> TRUE, exc |-> "ValueError", axes |-> s]
    ELSE Refill(<<>>, s, newnames)

\* setattr(a, attr, value) on a rectangle: x, y, w, h and aspect are
\* properties with setters; any other name ('selected' too: the flag is
\* _selected) is bound as a new instance attribute that nothing reads, so
\* the rectangle's position, anchor, lock and selection stay as they were
setattr(a, attr, value, fs) ==
    CASE attr = "x"      -> set_x(a, value)
      [] attr = "y"      -> set_y(a, value)
      [] attr = "w"      -> set_w(a, value, fs)
      [] attr = "h"      -> set_h(a, value, fs)
      [] attr = "aspect" -> set_aspect(a, value, fs)
      [] OTHER           -> a

\* AxesSet.set_property: [raised, exc, axes]; self[axname] raises KeyError
\* for a name that is not a key
set_property(s, axname, attr, value, fs) ==
    IF axname \notin NameSet(s)
    THEN [raised |-> TRUE, exc |-> "KeyError", axes |-> s]
    ELSE [raised |-> FALSE, exc |-> "",
          axes |-> [s EXCEPT ![IndexOf(s, axname)].a =
                      setattr(@, attr, value, fs)]]

\* AxesSet.select
select(s, n, b) ==
    [i \in DOMAIN s |->
        IF s[i].name = n THEN [s[i] EXCEPT !.a.selected = b] ELSE s[i]]

select_all(s) == [i \in DOMAIN s |-> [s[i] EXCEPT !.a.selected = TRUE]]

\* the selected entries, in collection order
SelectedEntries(s) == SelectSeq(s, LAMBDA e : e.a.selected)

selected(s) == values(SelectedEntries(s))

selected_names(s) == names(SelectedEntries(s))

any_selected(s) == \E i \in DOMAIN s : s[i].a.selected

----------------------------------------------------------------------------
(* AxPositioningEditor (gui/main.py): operations on [axes, anchor]         *)

\* update_anchor that records the new anchor on the set and leaves the
\* entries as they are
update_anchor_SetOnly(ed, pos, clicked) ==
    IF clicked
    THEN [axes |-> ed.axes, anchor |-> pos]
    ELSE ed

\* update_anchor(pos, clicked)
update_anchor(ed, pos, clicked) ==
    IF clicked
    THEN [axes   |-> [i \in DOMAIN ed.axes |->
                        [ed.axes[i] EXCEPT !.a = set_anchor(@, pos)]],
          anchor |-> pos]
    ELSE ed

RECURSIVE delete_axes_objects(_, _)
delete_axes_objects(ed, ns) ==
    IF ns = <<>>
    THEN ed
    ELSE delete_axes_objects([ed EXCEPT !.axes = pop(@, Head(ns))], Tail(ns))

\* axes_join that measures the boxes under the current anchor
axes_join_KeepsAnchor(ed, ns) ==
    LET sel == [i \in DOMAIN ns |-> Item(ed.axes, ns[i])]
        I   == DOMAIN sel
        xll == RatMin({get_x(sel[i]) : i \in I})
        yll == RatMin({get_y(sel[i]) : i \in I})
        xur == RatMax({Add(get_x(sel[i]), get_w(sel[i])) : i \in I})
        yur == RatMax({Add(get_y(sel[i]), get_h(sel[i])) : i \in I})
        k   == IndexOf(ed.axes, ns[1])
        ed2 == [ed EXCEPT !.axes[k].a =
                   set_bounds(@, <<xll, yll, Sub(xur, xll), Sub(yur, yll)>>)]
    IN  delete_axes_objects(ed2, Tail(ns))

\* axes_join that never switches back from the temporary anchor
axes_join_LeavesSW(ed, ns) ==
    LET ed1 == update_anchor(ed, "SW", TRUE)
        sel == [i \in DOMAIN ns |-> Item(ed1.axes, ns[i])]
        I   == DOMAIN sel
        xll == RatMin({get_x(sel[i]) : i \in I})
        yll == RatMin({get_y(sel[i]) : i \in I})
        xur == RatMax({Add(get_x(sel[i]), get_w(sel[i])) : i \in I})
        yur == RatMax({Add(get_y(sel[i]), get_h(sel[i])) : i \in I})
        k   == IndexOf(ed1.axes, ns[1])
        ed2 == [ed1 EXCEPT !.axes[k].a =
                   set_bounds(@, <<xll, yll, Sub(xur, xll), Sub(yur, yll)>>)]
    IN  delete_axes_objects(ed2, Tail(ns))

\* axes_join that deletes every entry but the first selected one
axes_join_DropsUnselected(ed, ns) ==
    LET anchor0 == ed.anchor
        ed1 == update_anchor(ed, "SW", TRUE)
        sel == [i \in DOMAIN ns |-> Item(ed1.axes, ns[i])]
        I   == DOMAIN sel
        xll == RatMin({get_x(sel[i]) : i \in I})
        yll == RatMin({get_y(sel[i]) : i \in I})
        xur == RatMax({Add(get_x(sel[i]), get_w(sel[i])) : i \in I})
        yur == RatMax({Add(get_y(sel[i]), get_h(sel[i])) : i \in I})
        k   == IndexOf(ed1.axes, ns[1])
        ed2 == [ed1 EXCEPT !.axes[k].a =
                   set_bounds(@, <<xll, yll, Sub(xur, xll), Sub(yur, yll)>>)]
        ed3 == delete_axes_objects(ed2, SelectSeq(names(ed2.axes),
                                                  LAMBDA n : n # ns[1]))
    IN  update_anchor(ed3, anchor0, TRUE)

\* axes_join(names, axes): names are the selected names, axes the objects
\* they name
axes_join(ed, ns) ==
    LET anchor0 == ed.anchor
        ed1 == update_anchor(ed, "SW", TRUE)
        sel == [i \in DOMAIN ns |-> Item(ed1.axes, ns[i])]
        I   == DOMAIN sel
        xll == RatMin({get_x(sel[i]) : i \in I})
        yll == RatMin({get_y(sel[i]) : i \in I})
        xur == RatMax({Add(get_x(sel[i]), get_w(sel[i])) : i \in I})
        yur == RatMax({Add(get_y(sel[i]), get_h(sel[i])) : i \in I})
        k   == IndexOf(ed1.axes, ns[1])
        ed2 == [ed1 EXCEPT !.axes[k].a =
                   set_bounds(@, <<xll, yll, Sub(xur, xll), Sub(yur, yll)>>)]
        ed3 == delete_axes_objects(ed2, Tail(ns))
    IN  update_anchor(ed3, anchor0, TRUE)

\* axes_equal_x that lines up the lower-left corners
axes_equal_x_AlignsCorner(ed, ns) ==
    LET xll == bounds(Item(ed.axes, ns[1]))[1]
        T   == {ns[j] : j \in 2..Len(ns)}
    IN  [ed EXCEPT !.axes =
            [i \in DOMAIN ed.axes |->
                IF ed.axes[i].name \in T
                THEN [ed.axes[i] EXCEPT !.a =
                        set_bounds(@, <<xll, bounds(@)[2], bounds(@)[3],
                                        bounds(@)[4]>>)]
                ELSE ed.axes[i]]]

\* axes_equal_x(names, axes): the first of the selected objects is popped as
\* the reference, the others are assigned its x
axes_equal_x(ed, ns) ==
    LET x == get_x(Item(ed.axes, ns[1]))
        T == {ns[j] : j \in 2..Len(ns)}
    IN  [ed EXCEPT !.axes =
            [i \in DOMAIN ed.axes |->
                IF ed.axes[i].name \in T
                THEN [ed.axes[i] EXCEPT !.a = set_x(@, x)]
                ELSE ed.axes[i]]]

axes_equal_y(ed, ns) ==
    LET y == get_y(Item(ed.axes, ns[1]))
        T == {ns[j] : j \in 2..Len(ns)}
    IN  [ed EXCEPT !.axes =
            [i \in DOMAIN ed.axes |->
                IF ed.axes[i].name \in T
                THEN [ed.axes[i] EXCEPT !.a = set_y(@, y)]
                ELSE ed.axes[i]]]

\* axes_equal_w that takes the last selected object as the reference
axes_equal_w_LastReference(ed, ns, fs) ==
    LET w == get_w(Item(ed.axes, ns[Len(ns)]))
        T == {ns[j] : j \in 1..(Len(ns) - 1)}
    IN  [ed EXCEPT !.axes =
            [i \in DOMAIN ed.axes |->
                IF ed.axes[i].name \in T
                THEN [ed.axes[i] EXCEPT !.a = set_w(@, w, fs)]
                ELSE ed.axes[i]]]

axes_equal_w(ed, ns, fs) ==
    LET w == get_w(Item(ed.axes, ns[1]))
        T == {ns[j] : j \in 2..Len(ns)}
    IN  [ed EXCEPT !.axes =
            [i \in DOMAIN ed.axes |->
                IF ed.axes[i].name \in T
                THEN [ed.axes[i] EXCEPT !.a = set_w(@, w, fs)]
                ELSE ed.axes[i]]]

axes_equal_h(ed, ns, fs) ==
    LET h == get_h(Item(ed.axes, ns[1]))
        T == {ns[j] : j \in 2..Len(ns)}
    IN  [ed EXCEPT !.axes =
            [i \in DOMAIN ed.axes |->
                IF ed.axes[i].name \in T
                THEN [ed.axes[i] EXCEPT !.a = set_h(@, h, fs)]
                ELSE ed.axes[i]]]

\* axes_equal_aspect that hands the reference's axaspect to the setter
axes_equal_aspect_AxesRatio(ed, ns, fs) ==
    LET A == axaspect(Item(ed.axes, ns[1]), fs)
        T == {ns[j] : j \in 2..Len(ns)}
    IN  [ed EXCEPT !.axes =
            [i \in DOMAIN ed.axes |->
                IF ed.axes[i].name \in T
                THEN [ed.axes[i] EXCEPT !.a = set_aspect(@, A, fs)]
                ELSE ed.axes[i]]]

axes_equal_aspect(ed, ns, fs) ==
    LET A == aspect(Item(ed.axes, ns[1]), fs)
        T == {ns[j] : j \in 2..Len(ns)}
    IN  [ed EXCEPT !.axes =
            [i \in DOMAIN ed.axes |->
                IF ed.axes[i].name \in T
                THEN [ed.axes[i] EXCEPT !.a = set_aspect(@, A, fs)]
                ELSE ed.axes[i]]]

\* the aspect getter divides by h, and the aspect setter by the aspect it
\* is handed and by its receiver's axaspect only under a lock
EqualAspectDefined(s) ==
    \A i \in DOMAIN s :
        s[i].a.selected => AxaspectDefined(s[i].a) /\ ~s[i].a.locked

\* f(*obj) for a PositioningAxes obj: the object is not iterable, so the
\* call raises TypeError before f is entered
Unpack(obj) == [raised |-> TRUE, args |-> <<>>]

\* new_ax = self.axes.add(...) has returned ad; new_ax._selected =
\* a._selected for the entry a at index k: [stop, exc, ed]
CopySelection(ed, k, ad) ==
    IF ad.raised
    THEN [stop |-> TRUE, exc |-> "ValueError", ed |-> ed]
    ELSE [stop |-> FALSE, exc |-> "",
          ed |-> [ed EXCEPT !.axes =
                    [ad.axes EXCEPT ![Len(ad.axes)].a.selected =
                        ed.axes[k].a.selected]]]

\* self.axes.add(*new_bounds, anchor=a.get_anchor()) with the unpacking u
\* of new_bounds, for the entry a at index k
AddUnpacked(ed, k, u, fs) ==
    IF u.raised
    THEN [stop |-> TRUE, exc |-> "TypeError", ed |-> ed]
    ELSE CopySelection(ed, k,
             add(ed.axes, ed.anchor, fs, u.args[1], u.args[2], u.args[3],
                 u.args[4], <<get_anchor(ed.axes[k].a)>>, FALSE))

\* the try statement of the loop body of axes_split with the outcome r of
\* a.split(...) for the entry a at index k: a ValueError is caught and
\* ends the handler, otherwise the else branch adds the second part
TrySplit(ed, k, r, fs) ==
    IF r.raised
    THEN [stop |-> TRUE, exc |-> "", ed |-> ed]
    ELSE AddUnpacked([ed EXCEPT !.axes[k].a = r.self], k, Unpack(r.new[1]),
                     fs)

\* the loop of axes_split over the selected names ns: [exc, ed]
RECURSIVE SplitLoop(_, _, _, _, _, _)
RECURSIVE SplitNext(_, _, _, _, _, _)
SplitLoop(ed, ns, ratio, spacing, horizontal, fs) ==
    IF ns = <<>>
    THEN [exc |-> "", ed |-> ed]
    ELSE SplitNext(TrySplit(ed, IndexOf(ed.axes, Head(ns)),
                            split(Item(ed.axes, Head(ns)), ratio, spacing,
                                  horizontal, fs), fs),
                   Tail(ns), ratio, spacing, horizontal, fs)

\* the loop goes on to the names after an entry whose pass st raised
\* nothing and did not return
SplitNext(st, ns, ratio, spacing, horizontal, fs) ==
    IF st.stop
    THEN [exc |-> st.exc, ed |-> st.ed]
    ELSE SplitLoop(st.ed, ns, ratio, spacing, horizontal, fs)

\* axes_split(names, axes) with the dialog accepted on
\* (ratio, spacing, horizontal)
axes_split(ed, ns, ratio, spacing, horizontal, fs) ==
    IF Lt(ratio, Zero) \/ Lt(One, ratio)
    THEN [exc |-> "", ed |-> ed]
    ELSE SplitLoop(ed, ns, ratio, spacing, horizontal, fs)

----------------------------------------------------------------------------
(* SpecEditor: the editor driven through its operations *)

AddBounds == {B(0, 0, 2, 2), B(3, 3, 2, 2), B(5, 1, 1, 4)}

InitLists ==
    { <<>>,
      <<B(0, 0, 2, 2), B(3, 3, 2, 2), B(5, 1, 1, 4)>>,
      <<B(5, 1, 1, 4), B(0, 0, 2, 2)>>,
      <<B(1, 1, 8, 8)>> }

Editor == [axes |-> axes, anchor |-> anchor]

CanOp == steps < MaxOps

\* AxesSet.__init__: add every bounds tuple in turn; the loop ends where an
\* add raises
RECURSIVE AxesSetInit(_, _, _, _)
AxesSetInit(s, anc, fs, bs) ==
    IF bs = <<>>
    THEN s
    ELSE LET b == Head(bs)
             r == add(s, anc, fs, b[1], b[2], b[3], b[4], <<>>, FALSE)
         IN  IF r.raised
             THEN r.axes
             ELSE AxesSetInit(r.axes, anc, fs, Tail(bs))

\* AxPositioningEditor(figsize, bounds, anchor)
InitEditor ==
    /\ figsize = <<Rat(6, 1), Rat(6, 1)>>
    /\ \E bs \in InitLists, anc \in AnchorNames :
          /\ anchor = anc
          /\ axes = AxesSetInit(<<>>, anc, figsize, bs)
          /\ last = [op |-> "init", args |-> <<bs, anc>>]
    /\ p = NewAxes(B(0, 0, 10, 10), FALSE, "C")
    /\ ret = NoRet
    /\ pre = [p |-> p, figsize |-> figsize, axes |-> axes, anchor |-> anchor]
    /\ steps = 0
    /\ proc = NoProc

\* the bookkeeping every editor operation shares
Operated(op, args) ==
    /\ last' = [op |-> op, args |-> args]
    /\ pre' = Snapshot
    /\ steps' = steps + 1
    /\ UNCHANGED <<figsize, p, proc>>

\* add_axes(bounds)
AddAxes(b) ==
    /\ CanOp
    /\ Len(axes) < MaxAxes
    /\ LET r == add(axes, anchor, figsize, b[1], b[2], b[3], b[4], <<>>, FALSE)
       IN  /\ axes' = r.axes
           /\ ret' = [raised |-> r.raised, new |-> <<>>]
    /\ Operated("add_axes", <<b>>)
    /\ UNCHANGED anchor

\* select_axes(key, b)
SelectAxes(n, b) ==
    /\ CanOp
    /\ n \in NameSet(axes)
    /\ axes' = select(axes, n, b)
    /\ ret' = NoRet
    /\ Operated("select_axes", <<n, b>>)
    /\ UNCHANGED anchor

SelectAllAxes ==
    /\ CanOp
    /\ axes' = select_all(axes)
    /\ ret' = NoRet
    /\ Operated("select_all_axes", <<>>)
    /\ UNCHANGED anchor

\* the anchor radio buttons: update_anchor(pos, True)
UpdateAnchor(pos) ==
    /\ CanOp
    /\ LET ed == update_anchor(Editor, pos, TRUE)
       IN  /\ axes' = ed.axes
           /\ anchor' = ed.anchor
    /\ ret' = NoRet
    /\ Operated("update_anchor", <<pos>>)

\* execute_current_action with 'join' chosen
ExecuteJoin ==
    /\ CanOp
    /\ LET ed == IF any_selected(axes)
                 THEN axes_join(Editor, selected_names(axes))
                 ELSE Editor
       IN  /\ axes' = ed.axes
           /\ anchor' = ed.anchor
    /\ ret' = NoRet
    /\ Operated("join", <<>>)

NextEditor ==
    \/ \E b \in AddBounds : AddAxes(b)
    \/ \E n \in NameSet(axes), b \in BOOLEAN : SelectAxes(n, b)
    \/ SelectAllAxes
    \/ \E pos \in AnchorNames : UpdateAnchor(pos)
    \/ ExecuteJoin

SpecEditor == InitEditor /\ [][NextEditor]_vars

----------------------------------------------------------------------------
(* SpecActions: the alignment and sizing actions of the action menu, on     *)
(* editors of either figure size                                            *)

\* AxPositioningEditor(figsize, bounds, anchor)
InitActions ==
    /\ \E fs \in FigSizes, bs \in InitLists, anc \in AnchorNames :
          /\ figsize = fs
          /\ anchor = anc
          /\ axes = AxesSetInit(<<>>, anc, fs, bs)
          /\ last = [op |-> "init", args |-> <<bs, anc>>]
    /\ p = NewAxes(B(0, 0, 10, 10), FALSE, "C")
    /\ ret = NoRet
    /\ pre = [p |-> p, figsize |-> figsize, axes |-> axes, anchor |-> anchor]
    /\ steps = 0
    /\ proc = NoProc

\* execute_current_action with 'align X' chosen
ExecuteAlignX ==
    /\ CanOp
    /\ axes' = IF any_selected(axes)
               THEN axes_equal_x(Editor, selected_names(axes)).axes
               ELSE axes
    /\ ret' = NoRet
    /\ Operated("align X", <<>>)
    /\ UNCHANGED anchor

\* execute_current_action with 'align Y' chosen
ExecuteAlignY ==
    /\ CanOp
    /\ axes' = IF any_selected(axes)
               THEN axes_equal_y(Editor, selected_names(axes)).axes
               ELSE axes
    /\ ret' = NoRet
    /\ Operated("align Y", <<>>)
    /\ UNCHANGED anchor

\* execute_current_action with 'equal width' chosen
ExecuteEqualW ==
    /\ CanOp
    /\ axes' = IF any_selected(axes)
               THEN axes_equal_w(Editor, selected_names(axes), figsize).axes
               ELSE axes
    /\ ret' = NoRet
    /\ Operated("equal width", <<>>)
    /\ UNCHANGED anchor

\* execute_current_action with 'equal height' chosen
ExecuteEqualH ==
    /\ CanOp
    /\ axes' = IF any_selected(axes)
               THEN axes_equal_h(Editor, selected_names(axes), figsize).axes
               ELSE axes
    /\ ret' = NoRet
    /\ Operated("equal height", <<>>)
    /\ UNCHANGED anchor

\* execute_current_action with 'equal aspect' chosen
ExecuteEqualAspect ==
    /\ CanOp
    /\ EqualAspectDefined(axes)
    /\ axes' = IF any_selected(axes)
               THEN axes_equal_aspect(Editor, selected_names(axes),
                                      figsize).axes
               ELSE axes
    /\ ret' = NoRet
    /\ Operated("equal aspect", <<>>)
    /\ UNCHANGED anchor

NextActions ==
    \/ \E n \in NameSet(axes), b \in BOOLEAN : SelectAxes(n, b)
    \/ SelectAllAxes
    \/ ExecuteAlignX
    \/ ExecuteAlignY
    \/ ExecuteEqualW
    \/ ExecuteEqualH
    \/ ExecuteEqualAspect

SpecActions == InitActions /\ [][NextActions]_vars

----------------------------------------------------------------------------
(* SpecNames: naming and ordering of the entries of an AxesSet *)

\* AxPositioningEditor(figsize, bounds) with the default anchor
InitNames ==
    /\ figsize = <<Rat(6, 1), Rat(6, 1)>>
    /\ anchor = "C"
    /\ \E bs \in InitLists :
          /\ axes = AxesSetInit(<<>>, anchor, figsize, bs)
          /\ last = [op |-> "init", args |-> <<bs, anchor>>]
    /\ p = NewAxes(B(0, 0, 10, 10), FALSE, "C")
    /\ ret = NoRet
    /\ pre = [p |-> p, figsize |-> figsize, axes |-> axes, anchor |-> anchor]
    /\ steps = 0
    /\ proc = NoProc

\* execute_current_action with 'delete' chosen
ExecuteDelete ==
    /\ CanOp
    /\ axes' = IF any_selected(axes)
               THEN delete_axes_objects(Editor, selected_names(axes)).axes
               ELSE axes
    /\ ret' = NoRet
    /\ Operated("delete", <<>>)
    /\ UNCHANGED anchor

\* a name that no entry carries
UnknownName == "?"

\* the orderings of the names of s
Orderings(s) ==
    {q \in [1..Len(s) -> NameSet(s)] : Range(q) = NameSet(s)}

\* name sequences handed to change_order: every ordering of the current
\* names and, for each, the ordering with its last name missing, with an
\* unknown name added, and with its first name repeated at the end or at
\* the front
OrderInputs(s) ==
    LET P == Orderings(s)
    IN  P \cup {SubSeq(q, 1, Len(q) - 1) : q \in P}
          \cup {Append(q, UnknownName) : q \in P}
          \cup {Append(q, q[1]) : q \in {r \in P : r # <<>>}}
          \cup {<<q[1]>> \o q : q \in {r \in P : r # <<>>}}

\* axes.change_order(newnames)
ChangeOrder(newnames) ==
    /\ CanOp
    /\ LET r == change_order(axes, newnames)
       IN  /\ axes' = r.axes
           /\ ret' = [raised |-> r.raised, new |-> <<>>, exc |-> r.exc]
    /\ Operated("change_order", <<newnames>>)
    /\ UNCHANGED anchor

NextNames ==
    \/ \E b \in AddBounds : AddAxes(b)
    \/ \E n \in NameSet(axes), b \in BOOLEAN : SelectAxes(n, b)
    \/ ExecuteDelete
    \/ \E q \in OrderInputs(axes) : ChangeOrder(q)

SpecNames == InitNames /\ [][NextNames]_vars

----------------------------------------------------------------------------
(* SpecMove: rows of the table dragged to a new place (move_axes) *)

MaxMoveOps == 2

\* keyfn that puts the dragged rows in front of all others
keyfn_RowsFirst(v, rows, ind) ==
    IF v \in rows THEN 0 ELSE IF v < ind THEN 1 ELSE 2

\* keyfn of move_axes: 1 for a dragged row, 0 for a row above the drop
\* index, 2 for a row at or below it
keyfn(v, rows, ind) ==
    IF v \in rows THEN 1 ELSE IF v < ind THEN 0 ELSE 2

\* v put into the sorted sequence q behind every element whose key is not
\* greater than its own
RECURSIVE Insert(_, _, _, _)
Insert(q, v, rows, ind) ==
    IF q = <<>>
    THEN <<v>>
    ELSE IF keyfn(Head(q), rows, ind) > keyfn(v, rows, ind)
         THEN <<v>> \o q
         ELSE <<Head(q)>> \o Insert(Tail(q), v, rows, ind)

\* sorted(list(range(n)), key=keyfn): a stable sort, the first i elements
\* of range(n) sorted
RECURSIVE sorted(_, _, _)
sorted(i, rows, ind) ==
    IF i = 0
    THEN <<>>
    ELSE Insert(sorted(i - 1, rows, ind), i - 1, rows, ind)

\* move_axes(rows, ind): the names handed to change_order (none when the
\* call returns at once), and what change_order made of them
move_axes(s, rows, ind) ==
    IF ind \in rows \/ (ind - 1) \in rows
    THEN [called |-> FALSE, passed |-> <<>>, raised |-> FALSE, exc |-> "",
          axes |-> s]
    ELSE LET indices  == sorted(Len(s), rows, ind)
             newnames == [j \in DOMAIN indices |-> names(s)[indices[j] + 1]]
             r        == change_order(s, newnames)
         IN  [called |-> TRUE, passed |-> newnames, raised |-> r.raised,
              exc |-> r.exc, axes |-> r.axes]

CanMove == steps < MaxMoveOps

\* the table emits moved(rows, ind): rows are the selected table rows,
\* ind the row the drop landed on
MoveAxes(rows, ind) ==
    /\ CanMove
    /\ LET r == move_axes(axes, rows, ind)
       IN  /\ axes' = r.axes
           /\ ret' = [raised |-> r.raised, new |-> <<>>, exc |-> r.exc,
                      called |-> r.called, passed |-> r.passed]
    /\ Operated("move_axes", <<rows, ind>>)
    /\ UNCHANGED anchor

NextMove ==
    \/ CanMove /\ \E b \in AddBounds : AddAxes(b)
    \/ CanMove /\ \E n \in NameSet(axes), b \in BOOLEAN : SelectAxes(n, b)
    \/ \E rows \in SUBSET (0 .. Len(axes) - 1), ind \in 0 .. Len(axes) :
          MoveAxes(rows, ind)

SpecMove == InitNames /\ [][NextMove]_vars

----------------------------------------------------------------------------
(* SpecCapacity: adds and deletes on sets that use nearly all candidate     *)
(* names                                                                    *)

\* bounds lists that take all but two, all but one, and all of the names
FullLists ==
    {[i \in 1..n |-> B(0, 0, 2, 2)] : n \in (NameRange - 2)..NameRange}

\* the first two names and the last one
DeleteNames == {chr(65), chr(66), chr(65 + NameRange - 1)}

CanFill == steps < MaxFillOps

\* AxPositioningEditor(figsize, bounds) with the default anchor
InitCapacity ==
    /\ figsize = <<Rat(6, 1), Rat(6, 1)>>
    /\ anchor = "C"
    /\ \E bs \in FullLists :
          /\ axes = AxesSetInit(<<>>, anchor, figsize, bs)
          /\ last = [op |-> "init", args |-> <<bs, anchor>>]
    /\ p = NewAxes(B(0, 0, 10, 10), FALSE, "C")
    /\ ret = NoRet
    /\ pre = [p |-> p, figsize |-> figsize, axes |-> axes, anchor |-> anchor]
    /\ steps = 0
    /\ proc = NoProc

\* add_axes(bounds) on a set of any size
AddAxesToSet(b) ==
    /\ CanFill
    /\ LET r == add(axes, anchor, figsize, b[1], b[2], b[3], b[4], <<>>, FALSE)
       IN  /\ axes' = r.axes
           /\ ret' = [raised |-> r.raised, new |-> <<>>]
    /\ Operated("add_axes", <<b>>)
    /\ UNCHANGED anchor

\* delete_axes(name)
DeleteAxes(n) ==
    /\ CanFill
    /\ n \in NameSet(axes)
    /\ axes' = pop(axes, n)
    /\ ret' = NoRet
    /\ Operated("delete_axes", <<n>>)
    /\ UNCHANGED anchor

NextCapacity ==
    \/ \E b \in AddBounds : AddAxesToSet(b)
    \/ \E n \in DeleteNames : DeleteAxes(n)

SpecCapacity == InitCapacity /\ [][NextCapacity]_vars

----------------------------------------------------------------------------
(* SpecPlace: placing new rectangles and splitting the selected ones *)

\* (x, y, w, h) handed to add_axes_at_position: the default size, the size
\* of a click, and a size typed into the add widget
PlaceArgs == {B(1, 5, 4, 4), B(5, 5, 3, 3), B(5, 1, 2, 4)}

\* what the split dialog returns
SplitRatios == {Rat(1, 4), Half, Rat(3, 2)}

SplitSpacings == {Tenths(1), Tenths(3)}

\* add_axes_at_position(x, y, w, h)
AddAxesAtPosition(b) ==
    /\ CanOp
    /\ Len(axes) < MaxAxes
    /\ LET r == add(axes, anchor, figsize, b[1], b[2], b[3], b[4], <<>>, TRUE)
       IN  /\ axes' = r.axes
           /\ ret' = [raised |-> r.raised, new |-> <<>>]
    /\ Operated("add_axes_at_position", <<b>>)
    /\ UNCHANGED anchor

\* execute_current_action with 'split' chosen and the dialog accepted
ExecuteSplit(ratio, spacing, horizontal) ==
    /\ CanOp
    /\ \A i \in DOMAIN axes :
          axes[i].a.selected => SplitDefined(axes[i].a, spacing, horizontal)
    /\ LET r == IF any_selected(axes)
                THEN axes_split(Editor, selected_names(axes), ratio, spacing,
                                horizontal, figsize)
                ELSE [exc |-> "", ed |-> Editor]
       IN  /\ axes' = r.ed.axes
           /\ anchor' = r.ed.anchor
           /\ ret' = [raised |-> r.exc # "", new |-> <<>>, exc |-> r.exc]
    /\ Operated("split", <<ratio, spacing, horizontal>>)

CanPlace == steps < MaxPlaceOps

NextPlace ==
    \/ CanPlace /\ \E b \in AddBounds : AddAxes(b)
    \/ CanPlace /\ \E b \in PlaceArgs : AddAxesAtPosition(b)
    \/ CanPlace /\ \E n \in NameSet(axes), b \in BOOLEAN : SelectAxes(n, b)
    \/ CanPlace /\ SelectAllAxes
    \/ CanPlace /\ \E pos \in AnchorNames : UpdateAnchor(pos)
    \/ CanPlace /\ \E r \in SplitRatios, s \in SplitSpacings, ws \in BOOLEAN :
                      ExecuteSplit(r, s, ws)

SpecPlace == InitEditor /\ [][NextPlace]_vars

----------------------------------------------------------------------------
(* SpecAnchor: set_anchor called with every kind of value *)

\* numeric pairs that are not the coefficients of a named preset
AnchorPairs == {<<Rat(1, 4), Rat(3, 4)>>, <<Zero, Rat(1, 3)>>}

\* names that are not keys of Bbox.coefs
OtherNames == {"XX", "center"}

\* tuples of numbers that are not pairs
OtherTuples == {<<Half>>, <<Half, Half, Half>>}

NextAnchor ==
    \/ \E v \in AnchorNames \cup OtherNames : CallSetAnchor(v)
    \/ \E v \in AnchorPairs \cup OtherTuples : CallSetAnchor(v)

SpecAnchor == Init /\ [][NextAnchor]_vars

----------------------------------------------------------------------------
(* SpecProperty: set_property on the entries of an AxesSet *)

CanSet == steps < MaxPropOps

\* (attr, value) pairs with a number for the value
NumberProperties ==
    {<<"x", Tenths(5)>>, <<"y", Tenths(1)>>, <<"w", Tenths(4)>>,
     <<"h", Tenths(2)>>, <<"aspect", Rat(3, 2)>>, <<"foo", One>>}

\* axes.set_property(axname, attr, value)
SetProperty(axname, attr, value) ==
    /\ CanSet
    /\ LET r == set_property(axes, axname, attr, value, figsize)
       IN  /\ axes' = r.axes
           /\ ret' = [raised |-> r.raised, new |-> <<>>, exc |-> r.exc]
    /\ Operated("set_property", <<axname, attr, value>>)
    /\ UNCHANGED anchor

NextProperty ==
    \/ CanSet /\ \E n \in NameSet(axes), b \in BOOLEAN : SelectAxes(n, b)
    \/ \E n \in NameSet(axes) \cup {UnknownName}, q \in NumberProperties :
          SetProperty(n, q[1], q[2])
    \/ \E n \in NameSet(axes) \cup {UnknownName}, b \in BOOLEAN :
          SetProperty(n, "selected", b)

SpecProperty == InitNames /\ [][NextProperty]_vars

----------------------------------------------------------------------------
(* SpecSession: an editing session that uses every operation of the editor *)

MaxSessionOps == 2

CanEdit == steps < MaxSessionOps

\* the values typed into the position fields of the table
FieldValues == {<<"x", Tenths(5)>>, <<"w", Tenths(4)>>, <<"aspect", Rat(3, 2)>>}

\* set_ax_position(row, attr, value) definedness: the w, h and aspect
\* setters divide by the entry's width and height
FieldDefined(n, attr) ==
    attr \in {"w", "h", "aspect"} => AxaspectDefined(Item(axes, n))

NextSession ==
    \/ CanEdit /\ \E b \in AddBounds : AddAxes(b)
    \/ CanEdit /\ \E b \in PlaceArgs : AddAxesAtPosition(b)
    \/ CanEdit /\ \E pos \in AnchorNames : UpdateAnchor(pos)
    \/ CanEdit /\ \E n \in NameSet(axes), b \in BOOLEAN : SelectAxes(n, b)
    \/ CanEdit /\ SelectAllAxes
    \/ CanEdit /\ \E n \in NameSet(axes), q \in FieldValues :
                      FieldDefined(n, q[1]) /\ SetProperty(n, q[1], q[2])
    \/ CanEdit /\ \E n \in NameSet(axes) : DeleteAxes(n)
    \/ CanEdit /\ \E row \in 0 .. Len(axes) - 1, ind \in 0 .. Len(axes) :
                      MoveAxes({row}, ind)
    \/ CanEdit /\ ExecuteDelete
    \/ CanEdit /\ ExecuteAlignX
    \/ CanEdit /\ ExecuteAlignY
    \/ CanEdit /\ ExecuteEqualW
    \/ CanEdit /\ ExecuteEqualH
    \/ CanEdit /\ ExecuteEqualAspect
    \/ CanEdit /\ ExecuteJoin
    \/ CanEdit /\ \E s \in SplitSpacings, ws \in BOOLEAN :
                      ExecuteSplit(Half, s, ws)

SpecSession == InitEditor /\ [][NextSession]_vars

----------------------------------------------------------------------------
(* SpecStream: python -m axpositioning.gui, started from a shell or by      *)
(* position_axes_gui_subprocess (gui/__init__.py, gui/__main__.py)          *)

\* one comma-separated field of a line of text: str(x) of a number x, or a
\* piece of text that float() does not accept
Number(x) == [float |-> TRUE, num |-> x, chr |-> ""]

Letter(c) == [float |-> FALSE, num |-> Zero, chr |-> c]

\* the characters of the keys of as_dict()
Letters(k) ==
    CASE k = "bounds"  -> <<"b", "o", "u", "n", "d", "s">>
      [] k = "figsize" -> <<"f", "i", "g", "s", "i", "z", "e">>

\* AxPositioningEditor.as_dict: dict(bounds=self.get_bounds(),
\* figsize=self.figsize); keys holds the keys in iteration order
as_dict(s, fs) ==
    [keys    |-> <<"bounds", "figsize">>,
     bounds  |-> [i \in DOMAIN s |-> bounds(s[i].a)],
     figsize |-> fs]

\* print(','.join(map(str, bnd))) for a string bnd: one field per character
PrintKey(k) ==
    [fig |-> FALSE, fields |-> [j \in DOMAIN Letters(k) |-> Letter(Letters(k)[j])]]

\* the loop 'for bnd in bounds: print(...)' of the driver, with bounds the
\* value position_axes_gui returned: iterating a dict yields its keys
PrintedLines(d) == [i \in DOMAIN d.keys |-> PrintKey(d.keys[i])]

\* [float(v) for v in line.split(',')] raises ValueError on a field that is
\* not a number
Parses(line) == \A j \in DOMAIN line.fields : line.fields[j].float

Floats(line) == [j \in DOMAIN line.fields |-> line.fields[j].num]

\* the parsing loop of position_axes_gui_subprocess over the lines read
\* from the pipe: [raised, exc, figsize, bounds]
ParseOutput(lines, fs) ==
    LET figs  == SelectSeq(lines, LAMBDA l : l.fig)
        other == SelectSeq(lines, LAMBDA l : ~l.fig /\ l.fields # <<>>)
    IN  IF \E i \in DOMAIN lines : ~Parses(lines[i])
        THEN [raised |-> TRUE, exc |-> "ValueError", figsize |-> fs,
              bounds |-> <<>>]
        ELSE [raised |-> FALSE, exc |-> "",
              figsize |-> IF figs = <<>> THEN fs
                          ELSE Floats(figs[Len(figs)]),
              bounds  |-> [i \in DOMAIN other |-> Floats(other[i])]]

\* the names bound in gui/__main__.py when the driver runs:
\* 'from .__init__ import *' brings the names of __all__, and the driver
\* imports argparse and sys itself
MainNames ==
    {"position_axes_gui", "position_axes_gui_subprocess",
     "adjust_figure_layout", "argparse", "sys"}

\* the defaults of --width and --height
DefaultSize == <<Rat(8, 1), Rat(6, 1)>>

\* position_axes_gui_subprocess(figsize, bounds) about to start
Caller(fs, bs) ==
    [mode |-> "subprocess", parent |-> "start", child |-> "none",
     stream |-> TRUE, size |-> fs, sent |-> bs, stdin |-> <<>>,
     stdout |-> <<>>, exc |-> "", childexc |-> "", result |-> <<>>]

\* python -m axpositioning.gui -W w -H h started from a shell
Shell(fs) ==
    [mode |-> "cli", parent |-> "none", child |-> "started",
     stream |-> FALSE, size |-> fs, sent |-> <<>>, stdin |-> <<>>,
     stdout |-> <<>>, exc |-> "", childexc |-> "", result |-> <<>>]

InitStream ==
    /\ figsize = DefaultSize
    /\ axes = <<>>
    /\ anchor = "C"
    /\ \/ \E fs \in FigSizes, bs \in InitLists : proc = Caller(fs, bs)
       \/ \E fs \in FigSizes \cup {DefaultSize} : proc = Shell(fs)
    /\ last = [op |-> "init", args |-> <<>>]
    /\ p = NewAxes(B(0, 0, 10, 10), FALSE, "C")
    /\ ret = NoRet
    /\ pre = [p |-> p, figsize |-> figsize, axes |-> axes, anchor |-> anchor]
    /\ steps = 0

\* a step of one of the processes that is not an editor operation
ProcessStep == UNCHANGED <<p, ret, last, pre, steps>>

\* subprocess.Popen(cmd, stdin=PIPE, stdout=PIPE)
Popen ==
    /\ proc.mode = "subprocess"
    /\ proc.parent = "start"
    /\ proc' = [proc EXCEPT !.parent = "spawned", !.child = "started"]
    /\ ProcessStep
    /\ UNCHANGED <<figsize, axes, anchor>>

\* pickler.dump(bounds); p.stdin.close(); p.wait(): the pickle reaches the
\* pipe, or the write fails because the reading end is gone
DumpBounds ==
    /\ proc.mode = "subprocess"
    /\ proc.parent = "spawned"
    /\ proc' = IF proc.child \in {"crashed", "exited"}
               THEN [proc EXCEPT !.parent = "raised",
                                 !.exc = "BrokenPipeError"]
               ELSE [proc EXCEPT !.parent = "waiting",
                                 !.stdin = <<proc.sent>>]
    /\ ProcessStep
    /\ UNCHANGED <<figsize, axes, anchor>>

\* the driver parses its arguments: figsize = width, height
ParseArgs ==
    /\ proc.mode # "none"
    /\ proc.child = "started"
    /\ proc' = [proc EXCEPT !.child = "parsed"]
    /\ figsize' = proc.size
    /\ ProcessStep
    /\ UNCHANGED <<axes, anchor>>

\* the driver gets its bounds, unpickled from stdin with --stream-bounds
\* and [] without, and position_axes_gui opens the editor on them; the name
\* pickle is looked up in the driver's namespace
LoadBounds ==
    /\ proc.mode # "none"
    /\ proc.child = "parsed"
    /\ (proc.stream /\ "pickle" \in MainNames) => proc.stdin # <<>>
    /\ IF proc.stream /\ "pickle" \notin MainNames
       THEN /\ proc' = [proc EXCEPT !.child = "crashed",
                                    !.childexc = "NameError"]
            /\ UNCHANGED axes
       ELSE /\ proc' = [proc EXCEPT !.child = "editing"]
            /\ axes' = AxesSetInit(<<>>, "C", figsize,
                                   IF proc.stream THEN proc.stdin[1]
                                                  ELSE <<>>)
    /\ ProcessStep
    /\ UNCHANGED <<figsize, anchor>>

\* an edit made in the editor window
Edit(b) ==
    /\ proc.mode # "none"
    /\ proc.child = "editing"
    /\ AddAxes(b)

\* the window is closed: position_axes_gui returns w.as_dict() and the
\* driver prints one line for every item it iterates
CloseEditor ==
    /\ proc.mode # "none"
    /\ proc.child = "editing"
    /\ proc' = [proc EXCEPT !.child = "exited",
                            !.stdout = PrintedLines(as_dict(axes, figsize))]
    /\ ProcessStep
    /\ UNCHANGED <<figsize, axes, anchor>>

\* out = p.stdout.read() once the child has ended, and the parsing loop
ReadOutput ==
    /\ proc.mode = "subprocess"
    /\ proc.parent = "waiting"
    /\ proc.child \in {"crashed", "exited"}
    /\ LET r == ParseOutput(proc.stdout, proc.size)
       IN  proc' = IF r.raised
                   THEN [proc EXCEPT !.parent = "raised", !.exc = r.exc]
                   ELSE [proc EXCEPT !.parent = "returned",
                                     !.result = <<r.figsize, r.bounds>>]
    /\ ProcessStep
    /\ UNCHANGED <<figsize, axes, anchor>>

NextStream ==
    \/ Popen
    \/ DumpBounds
    \/ ParseArgs
    \/ LoadBounds
    \/ \E b \in AddBounds : Edit(b)
    \/ CloseEditor
    \/ ReadOutput

SpecStream == InitStream /\ [][NextStream]_vars

----------------------------------------------------------------------------
(* Claims about PositioningAxes, checked under Spec *)

Positive(a) == Lt(Zero, a)

\* C1: a rectangle constructed with absolute bounds (xll, yll, w, h) and a
\* named anchor with coefficients (ax, ay) reads x = xll + ax*w,
\* y = yll + ay*h, w = w, h = h, and its bounds getter returns exactly the
\* bounds it was constructed with; bounds (.1,.1,.8,.8) read (.5,.5,.8,.8)
\* with anchor C and (.1,.1,.8,.8) with anchor SW.
C1_GettersAfterConstruction ==
    last.op = "init" =>
        LET b == last.args[1]
            c == coefs(last.args[3])
        IN  /\ bounds(p) = b
            /\ get_x(p) = Add(b[1], Mul(c[1], b[3]))
            /\ get_y(p) = Add(b[2], Mul(c[2], b[4]))
            /\ get_w(p) = b[3]
            /\ get_h(p) = b[4]
            /\ (b = B(1, 1, 8, 8) /\ last.args[3] = "C" =>
                    <<get_x(p), get_y(p), get_w(p), get_h(p)>> = B(5, 5, 8, 8))
            /\ (b = B(1, 1, 8, 8) /\ last.args[3] = "SW" =>
                    <<get_x(p), get_y(p), get_w(p), get_h(p)>> = B(1, 1, 8, 8))

C1_Witness ==
    /\ last.op = "init"
    /\ last.args[1] = B(1, 1, 8, 8)
    /\ last.args[3] = "C"
    /\ get_x(p) = Half

\* C2: set_anchor with a named preset changes only the anchor: the absolute
\* bounds, w, h and the lock flag are what they were before the call, and
\* (x, y) read xll + ax*w, yll + ay*h for the coefficients of the newest
\* anchor alone.
C2_SetAnchorChangesOnlyAnchor ==
    last.op = "set_anchor" =>
        LET b0 == bounds(pre.p)
            c  == coefs(last.args[1])
        IN  /\ bounds(p) = b0
            /\ get_w(p) = get_w(pre.p)
            /\ get_h(p) = get_h(pre.p)
            /\ p.locked = pre.p.locked
            /\ get_anchor(p) = c
            /\ get_x(p) = Add(b0[1], Mul(c[1], b0[3]))
            /\ get_y(p) = Add(b0[2], Mul(c[2], b0[4]))

C2_Witness ==
    /\ last.op = "set_anchor"
    /\ steps = 2
    /\ last.args[1] = "NE"
    /\ get_anchor(pre.p) = coefs("C")
    /\ bounds(p) = B(1, 1, 8, 8)
    /\ <<get_x(p), get_y(p)>> = <<Tenths(9), Tenths(9)>>

\* C3: with aspect lock off, w := w2 makes xll = xll + ax*(w - w2), so x
\* reads as before, and leaves yll and h unchanged; h := h2 makes
\* yll = yll + ay*(h - h2), so y reads as before, and leaves xll and w
\* unchanged; for every anchor.
C3_ResizeKeepsAnchorPoint ==
    /\ (last.op = "w" /\ ~pre.p.locked =>
            LET b0 == bounds(pre.p)
                w2 == last.args[1]
            IN  /\ bounds(p) = <<Add(b0[1], Mul(get_anchor(pre.p)[1], Sub(b0[3], w2))),
                                 b0[2], w2, b0[4]>>
                /\ get_x(p) = get_x(pre.p))
    /\ (last.op = "h" /\ ~pre.p.locked =>
            LET b0 == bounds(pre.p)
                h2 == last.args[1]
            IN  /\ bounds(p) = <<b0[1],
                                 Add(b0[2], Mul(get_anchor(pre.p)[2], Sub(b0[4], h2))),
                                 b0[3], h2>>
                /\ get_y(p) = get_y(pre.p))

C3_Witness ==
    /\ last.op = "w"
    /\ ~pre.p.locked
    /\ get_anchor(p) = coefs("E")
    /\ get_w(p) # get_w(pre.p)
    /\ bounds(p)[1] # bounds(pre.p)[1]
    /\ get_x(p) = get_x(pre.p)

\* C4: x := v stores xll = v - ax*w with the current w and leaves yll, w, h
\* unchanged, so x then reads v; y := v stores yll = v - ay*h and leaves
\* xll, w, h unchanged, so y then reads v.
C4_PositionRoundTrip ==
    /\ (last.op = "x" =>
            LET b0 == bounds(pre.p)
                v  == last.args[1]
            IN  /\ bounds(p) = <<Sub(v, Mul(get_anchor(pre.p)[1], b0[3])),
                                 b0[2], b0[3], b0[4]>>
                /\ get_x(p) = v)
    /\ (last.op = "y" =>
            LET b0 == bounds(pre.p)
                v  == last.args[1]
            IN  /\ bounds(p) = <<b0[1],
                                 Sub(v, Mul(get_anchor(pre.p)[2], b0[4])),
                                 b0[3], b0[4]>>
                /\ get_y(p) = v)

C4_Witness ==
    /\ last.op = "x"
    /\ get_anchor(p)[1] = Half
    /\ get_x(pre.p) # last.args[1]
    /\ bounds(p)[1] # last.args[1]
    /\ get_x(p) = last.args[1]

\* C5: with the aspect locked, w := v and h := v (v > 0, on a rectangle with
\* positive w and h) leave the values read from aspect and axaspect equal to
\* the values read before the assignment.
C5_LockedResizePreservesAspect ==
    (/\ last.op \in {"w", "h"}
     /\ pre.p.locked
     /\ Positive(get_w(pre.p))
     /\ Positive(get_h(pre.p))
     /\ Positive(last.args[1]))
        => /\ aspect(p, figsize) = aspect(pre.p, pre.figsize)
           /\ axaspect(p, figsize) = axaspect(pre.p, pre.figsize)

C8_SplitPartitions ==
    (last.op = "split" /\ ~ret.raised) =>
        LET r  == last.args[1]
            s  == last.args[2]
            i  == IF last.args[3] THEN 1 ELSE 2    \* position along the split axis
            j  == IF last.args[3] THEN 2 ELSE 1    \* position along the other axis
            b0 == bounds(pre.p)
            b1 == bounds(p)
            b2 == bounds(ret.new[1])
        IN  /\ b1[i + 2] = Mul(Sub(b0[i + 2], s), r)
            /\ b2[i + 2] = Mul(Sub(b0[i + 2], s), Sub(One, r))
            /\ b2[j] = b0[j]
            /\ b2[j + 2] = b0[j + 2]
            /\ b1[i] = b0[i]
            /\ b2[i] = Add(Add(b1[i], b1[i + 2]), s)
            /\ Add(b2[i], b2[i + 2]) = Add(b0[i], b0[i + 2])

\* C9: split raises ValueError whenever spacing >= the size along the split
\* axis (spacing = size included); the receiver's bounds, anchor and lock
\* flag are then unchanged and no second rectangle is produced.
C9_SplitRejectsLargeSpacing ==
    (/\ last.op = "split"
     /\ Ge(last.args[2], IF last.args[3] THEN get_w(pre.p) ELSE get_h(pre.p)))
        => /\ ret.raised
           /\ ret.new = <<>>
           /\ p = pre.p

C9_Witness ==
    /\ last.op = "split"
    /\ last.args[3]
    /\ last.args[2] = get_w(pre.p)
    /\ bounds(pre.p) = B(0, 0, 10, 10)
    /\ ret.raised
    /\ p = pre.p

\* C24 as stated: assigning aspect with the lock off holds the rectangle's
\* height and solves for the width: h and yll are unchanged, and only w
\* (and xll, to keep the anchor x where it was) change.
C24_AspectHoldsHeight ==
    (last.op = "aspect" /\ ~pre.p.locked /\ AxaspectDefined(pre.p)) =>
        /\ get_h(p) = get_h(pre.p)
        /\ bounds(p)[2] = bounds(pre.p)[2]
        /\ get_x(p) = get_x(pre.p)

\* C24, amended: assigning aspect A with the lock off holds the
\* rectangle's width and solves for the height: w and xll are unchanged,
\* h becomes w * figaspect / A, and yll moves so that the anchor y stays
\* where it was.
C24_AspectHoldsWidth ==
    (last.op = "aspect" /\ ~pre.p.locked /\ AxaspectDefined(pre.p)) =>
        /\ get_w(p) = get_w(pre.p)
        /\ bounds(p)[1] = bounds(pre.p)[1]
        /\ get_h(p) = Div(Mul(get_w(pre.p), figaspect(figsize)), last.args[1])
        /\ get_x(p) = get_x(pre.p)
        /\ get_y(p) = get_y(pre.p)
        /\ get_anchor(p) = get_anchor(pre.p)
        /\ p.locked = pre.p.locked

C24_Witness ==
    /\ last.op = "aspect"
    /\ ~pre.p.locked
    /\ get_anchor(p) = coefs("NE")
    /\ figsize = <<Rat(6, 1), Rat(4, 1)>>
    /\ get_w(p) = get_w(pre.p)
    /\ get_h(p) # get_h(pre.p)
    /\ bounds(p)[2] # bounds(pre.p)[2]
    /\ bounds(p)[1] = bounds(pre.p)[1]


\* the value the property named by a setter call reads before the call
Current(op) ==
    CASE op = "x" -> get_x(pre.p)
      [] op = "y" -> get_y(pre.p)
      [] op = "w" -> get_w(pre.p)
      [] op = "h" -> get_h(pre.p)

\* C27: assigning x, y, w or h the value it has is a no-op for every anchor
\* and with the aspect lock off and on: the absolute bounds after the
\* assignment equal the bounds before it.
C27_SelfAssignmentNoOp ==
    (last.op \in {"x", "y", "w", "h"} /\ last.args[1] = Current(last.op)) =>
        bounds(p) = bounds(pre.p)

----------------------------------------------------------------------------
(* Claims about the editor, checked under SpecEditor *)

\* the absolute bounds of the entries of s named in ns
BoundsOf(s, ns) == {bounds(Item(s, ns[i])) : i \in DOMAIN ns}

\* C10: join over a non-empty selection sets the first selected entry (in
\* collection order) to the union bounding box of the selected entries'
\* absolute extents, (min xll, min yll, max(xll+w) - min xll,
\* max(yll+h) - min yll), whatever the set's anchor, and deletes every other
\* selected entry; (0,0,.2,.2), (.3,.3,.2,.2), (.5,.1,.1,.4) all selected
\* join to the single entry (0,0,.6,.5).
C10_JoinBoundingBox ==
    (last.op = "join" /\ any_selected(pre.axes)) =>
        LET ns  == selected_names(pre.axes)
            S   == BoundsOf(pre.axes, ns)
            xll == RatMin({b[1] : b \in S})
            yll == RatMin({b[2] : b \in S})
            xur == RatMax({Add(b[1], b[3]) : b \in S})
            yur == RatMax({Add(b[2], b[4]) : b \in S})
        IN  /\ ns[1] \in NameSet(axes)
            /\ bounds(Item(axes, ns[1])) =
                   <<xll, yll, Sub(xur, xll), Sub(yur, yll)>>
            /\ \A i \in 2..Len(ns) : ns[i] \notin NameSet(axes)
            /\ (/\ Len(ns) = 3
                /\ Len(pre.axes) = 3
                /\ S = {B(0, 0, 2, 2), B(3, 3, 2, 2), B(5, 1, 1, 4)})
                   => /\ Len(axes) = 1
                      /\ bounds(axes[1].a) = B(0, 0, 6, 5)

C10_Witness ==
    /\ last.op = "join"
    /\ pre.anchor = "NE"
    /\ Len(selected_names(pre.axes)) = 3
    /\ BoundsOf(pre.axes, names(pre.axes)) =
           {B(0, 0, 2, 2), B(3, 3, 2, 2), B(5, 1, 1, 4)}
    /\ Len(axes) = 1
    /\ bounds(axes[1].a) = B(0, 0, 6, 5)

\* C11: after join on a non-empty selection the set's anchor is the one it
\* had immediately before the join, and so is the anchor of every surviving
\* entry; the temporary lower-left anchor is never left behind.
C11_JoinRestoresAnchor ==
    (last.op = "join" /\ any_selected(pre.axes)) =>
        /\ anchor = pre.anchor
        /\ \A n \in NameSet(axes) :
              /\ n \in NameSet(pre.axes)
              /\ get_anchor(Item(axes, n)) = get_anchor(Item(pre.axes, n))
              /\ get_anchor(Item(axes, n)) = coefs(pre.anchor)

C11_Witness ==
    /\ last.op = "join"
    /\ pre.anchor = "NE"
    /\ Len(selected_names(pre.axes)) = 2
    /\ Len(axes) = 2
    /\ anchor = "NE"
    /\ \A i \in DOMAIN axes : get_anchor(axes[i].a) = coefs("NE")

\* C29: join touches only the selection: after join over k >= 1 selected
\* entries the set has k - 1 fewer entries, the surviving names are the
\* unselected names and the first selected name in their previous relative
\* order, every unselected entry keeps its absolute bounds and its
\* selection flag, the resulting box contains every joined rectangle, and
\* joining a single selected entry leaves its bounds unchanged.
C29_JoinTouchesOnlySelection ==
    (last.op = "join" /\ any_selected(pre.axes)) =>
        LET ns  == selected_names(pre.axes)
            k   == Len(ns)
            box == bounds(Item(axes, ns[1]))
        IN  /\ Len(axes) = Len(pre.axes) - (k - 1)
            /\ names(axes) =
                   SelectSeq(names(pre.axes),
                             LAMBDA n : ~Item(pre.axes, n).selected
                                           \/ n = ns[1])
            /\ \A n \in NameSet(pre.axes) :
                  ~Item(pre.axes, n).selected =>
                      /\ bounds(Item(axes, n)) = bounds(Item(pre.axes, n))
                      /\ ~Item(axes, n).selected
            /\ \A b \in BoundsOf(pre.axes, ns) :
                  /\ Ge(b[1], box[1])
                  /\ Ge(b[2], box[2])
                  /\ Ge(Add(box[1], box[3]), Add(b[1], b[3]))
                  /\ Ge(Add(box[2], box[4]), Add(b[2], b[4]))
            /\ k = 1 => box = bounds(Item(pre.axes, ns[1]))

C29_Witness ==
    /\ last.op = "join"
    /\ Len(pre.axes) = 3
    /\ selected_names(pre.axes) = <<"A", "C">>
    /\ names(axes) = <<"A", "B">>
    /\ bounds(Item(axes, "B")) = bounds(Item(pre.axes, "B"))
    /\ bounds(Item(axes, "A")) # bounds(Item(pre.axes, "A"))

----------------------------------------------------------------------------
(* Claims about the action menu, checked under SpecActions *)

\* the reference entry of an action: the first selected one, in collection
\* order, before the action
Reference == Item(pre.axes, selected_names(pre.axes)[1])

\* C12: align X (align Y) sets the anchor-relative x (y) of every selected
\* entry to the value the first selected entry, in collection order, had
\* before the action, so that all selected entries read the same x (y);
\* the reference entry's bounds, every entry's w, h and position on the
\* other axis, and every unselected entry are unchanged.
C12_AlignToFirstSelected ==
    (last.op \in {"align X", "align Y"} /\ any_selected(pre.axes)) =>
        /\ names(axes) = names(pre.axes)
        /\ Item(axes, selected_names(pre.axes)[1]) = Reference
        /\ \A i \in DOMAIN axes :
              LET a  == axes[i].a
                  a0 == pre.axes[i].a
              IN  /\ get_w(a) = get_w(a0)
                  /\ get_h(a) = get_h(a0)
                  /\ a.selected = a0.selected
                  /\ get_anchor(a) = get_anchor(a0)
                  /\ ~a0.selected => a = a0
                  /\ last.op = "align X" =>
                        /\ get_y(a) = get_y(a0)
                        /\ a0.selected => get_x(a) = get_x(Reference)
                  /\ last.op = "align Y" =>
                        /\ get_x(a) = get_x(a0)
                        /\ a0.selected => get_y(a) = get_y(Reference)

C12_Witness ==
    /\ last.op = "align X"
    /\ pre.anchor = "C"
    /\ Len(axes) = 3
    /\ selected_names(pre.axes) = <<"A", "C">>
    /\ get_x(Item(pre.axes, "C")) # get_x(Item(pre.axes, "A"))
    /\ get_x(Item(axes, "C")) = get_x(Item(pre.axes, "A"))
    /\ bounds(Item(axes, "C"))[1] # bounds(Item(axes, "A"))[1]
    /\ Item(axes, "B") = Item(pre.axes, "B")

\* C13: equal width (equal height) sets the w (h) of every selected entry
\* to the value the first selected entry had before the action; each
\* resized entry's anchor point (x, y) stays where it was, and the other
\* dimension of every entry is unchanged.
C13_EqualSizeKeepsAnchorPoint ==
    (last.op \in {"equal width", "equal height"} /\ any_selected(pre.axes)) =>
        /\ names(axes) = names(pre.axes)
        /\ \A i \in DOMAIN axes :
              LET a  == axes[i].a
                  a0 == pre.axes[i].a
              IN  /\ get_x(a) = get_x(a0)
                  /\ get_y(a) = get_y(a0)
                  /\ ~a0.selected => a = a0
                  /\ last.op = "equal width" =>
                        /\ get_h(a) = get_h(a0)
                        /\ a0.selected => get_w(a) = get_w(Reference)
                  /\ last.op = "equal height" =>
                        /\ get_w(a) = get_w(a0)
                        /\ a0.selected => get_h(a) = get_h(Reference)

C13_Witness ==
    /\ last.op = "equal width"
    /\ pre.anchor = "E"
    /\ selected_names(pre.axes) = <<"A", "C">>
    /\ get_w(Item(pre.axes, "C")) # get_w(Item(pre.axes, "A"))
    /\ get_w(Item(axes, "C")) = get_w(Item(pre.axes, "A"))
    /\ get_x(Item(axes, "C")) = get_x(Item(pre.axes, "C"))
    /\ bounds(Item(axes, "C"))[1] # bounds(Item(pre.axes, "C"))[1]

\* C14: after equal aspect every selected entry's aspect getter returns the
\* aspect the first selected entry had before the action, and the
\* reference entry's bounds are unchanged.
C14_EqualAspect ==
    (last.op = "equal aspect" /\ any_selected(pre.axes)) =>
        /\ names(axes) = names(pre.axes)
        /\ bounds(Item(axes, selected_names(pre.axes)[1])) = bounds(Reference)
        /\ \A i \in DOMAIN axes :
              pre.axes[i].a.selected =>
                  /\ AspectDefined(axes[i].a)
                  /\ aspect(axes[i].a, figsize) = aspect(Reference, pre.figsize)

C14_Witness ==
    /\ last.op = "equal aspect"
    /\ figsize = <<Rat(6, 1), Rat(4, 1)>>
    /\ Len(selected_names(pre.axes)) = 2
    /\ \E i \in DOMAIN axes :
          /\ pre.axes[i].a.selected
          /\ aspect(pre.axes[i].a, figsize) # aspect(Reference, figsize)
          /\ aspect(axes[i].a, figsize) = aspect(Reference, figsize)
          /\ get_h(axes[i].a) # get_h(pre.axes[i].a)

----------------------------------------------------------------------------
(* Claims about names and order, checked under SpecNames *)

\* the first candidate name, in scan order, that no entry of s carries
FirstUnused(s) ==
    chr(65 + (CHOOSE i \in 0..(NameRange - 1) :
                /\ chr(65 + i) \notin NameSet(s)
                /\ \A k \in 0..(i - 1) : chr(65 + k) \in NameSet(s)))

\* C15: after any sequence of adds and deletes the names are pairwise
\* distinct; each add gives the new entry, placed last, the first candidate
\* name in scan order A, B, C, ... that is not in use: three adds to an
\* empty set give A, B, C, and an add after deleting B reuses B.
C15_NamesUniqueFirstUnused ==
    /\ Cardinality(NameSet(axes)) = Len(axes)
    /\ (last.op = "add_axes" /\ ~ret.raised) =>
          names(axes) = Append(names(pre.axes), FirstUnused(pre.axes))
    /\ (last.op = "init" /\ Len(last.args[1]) = 3) =>
          names(axes) = <<"A", "B", "C">>
    /\ (last.op = "add_axes" /\ names(pre.axes) = <<"A", "C">>) =>
          names(axes) = <<"A", "C", "B">>

C15_Witness ==
    /\ last.op = "add_axes"
    /\ names(pre.axes) = <<"A", "C">>
    /\ names(axes) = <<"A", "C", "B">>

\* newnames lists every current name of s exactly once and nothing else
IsPermutation(newnames, s) ==
    /\ Len(newnames) = Len(s)
    /\ Range(newnames) = NameSet(s)

\* C17: change_order rejects with ValueError every name sequence that is
\* not exactly a permutation of the current names, whether a name is
\* missing, unknown or repeated.
C17_NonPermutationValueError ==
    (last.op = "change_order" /\ ~IsPermutation(last.args[1], pre.axes)) =>
        /\ ret.raised
        /\ ret.exc = "ValueError"

\* C18: change_order with a permutation of the current names leaves the
\* set in exactly that order, every name on the rectangle it named before,
\* with its bounds, anchor and selection; bounds(), names, selected and
\* selected_names follow the new order.
C18_ReorderKeepsEntries ==
    (last.op = "change_order" /\ IsPermutation(last.args[1], pre.axes)) =>
        LET q == last.args[1]
        IN  /\ ~ret.raised
            /\ names(axes) = q
            /\ \A n \in NameSet(pre.axes) :
                  /\ n \in NameSet(axes)
                  /\ Item(axes, n) = Item(pre.axes, n)
            /\ [i \in DOMAIN axes |-> bounds(axes[i].a)] =
                   [i \in DOMAIN q |-> bounds(Item(pre.axes, q[i]))]
            /\ selected_names(axes) =
                   SelectSeq(q, LAMBDA n : Item(pre.axes, n).selected)
            /\ selected(axes) =
                   [i \in DOMAIN selected_names(axes) |->
                       Item(pre.axes, selected_names(axes)[i])]

C18_Witness ==
    /\ last.op = "change_order"
    /\ names(pre.axes) = <<"A", "B", "C">>
    /\ last.args[1] = <<"C", "A", "B">>
    /\ selected_names(pre.axes) = <<"A", "C">>
    /\ names(axes) = <<"C", "A", "B">>
    /\ selected_names(axes) = <<"C", "A">>
    /\ bounds(axes[1].a) = B(5, 1, 1, 4)

----------------------------------------------------------------------------
(* Claims about the name capacity, checked under SpecCapacity *)

\* every candidate name chr(65) .. chr(65 + NameRange - 1)
Candidates == {chr(65 + i) : i \in 0..(NameRange - 1)}

\* C16: an add on a set that already uses all 50 candidate names raises
\* ValueError and leaves the set's names, order and bounds as they were; no
\* sequence of adds and deletes makes the set hold more than 50 entries.
C16_NameCapacity ==
    /\ Len(axes) <= NameRange
    /\ (last.op = "add_axes" /\ NameSet(pre.axes) = Candidates) =>
          /\ ret.raised
          /\ axes = pre.axes

C16_Witness ==
    /\ last.op = "add_axes"
    /\ Len(pre.axes) = NameRange
    /\ pre.axes[NameRange].name = "A"
    /\ ret.raised
    /\ names(axes) = names(pre.axes)

----------------------------------------------------------------------------
(* Claims about placing and splitting, checked under SpecPlace *)

\* C19: add(x, y, w, h, apply_anchor=True) gives the new entry the absolute
\* bounds (x - ax*w, y - ay*h, w, h), (ax, ay) the set's anchor
\* coefficients, so that its getters return the arguments for every anchor;
\* with apply_anchor=False the arguments are the absolute bounds; either
\* way the new entry is last and the existing entries are unchanged.
C19_AddAtPosition ==
    (last.op \in {"add_axes_at_position", "add_axes"} /\ ~ret.raised) =>
        LET b   == last.args[1]
            c   == coefs(pre.anchor)
            n   == Len(axes)
            new == axes[n].a
        IN  /\ n = Len(pre.axes) + 1
            /\ SubSeq(axes, 1, n - 1) = pre.axes
            /\ get_anchor(new) = c
            /\ last.op = "add_axes_at_position" =>
                  /\ bounds(new) = <<Sub(b[1], Mul(c[1], b[3])),
                                     Sub(b[2], Mul(c[2], b[4])), b[3], b[4]>>
                  /\ <<get_x(new), get_y(new), get_w(new), get_h(new)>> = b
            /\ last.op = "add_axes" => bounds(new) = b

C19_Witness ==
    /\ last.op = "add_axes_at_position"
    /\ pre.anchor = "NE"
    /\ last.args[1] = B(1, 5, 4, 4)
    /\ Len(pre.axes) = 2
    /\ Len(axes) = 3
    /\ bounds(axes[3].a) = <<Rat(-3, 10), Tenths(1), Tenths(4), Tenths(4)>>
    /\ get_x(axes[3].a) = Tenths(1)

\* the split is one the claim calls valid: ratio within [0, 1] and spacing
\* below the size of every selected entry along the split axis
ValidSplit ==
    /\ Ge(last.args[1], Zero)
    /\ Ge(One, last.args[1])
    /\ \A i \in DOMAIN pre.axes :
          pre.axes[i].a.selected =>
              Lt(last.args[2], IF last.args[3] THEN get_w(pre.axes[i].a)
                                               ELSE get_h(pre.axes[i].a))

\* C20: a split from the action menu with a valid ratio and spacing
\* shrinks each of the k selected entries to its first part and adds the
\* second part as a new entry with the source's anchor and selection, so
\* the set holds exactly k more entries; unselected entries are unchanged.
C20_SplitAddsSecondParts ==
    (last.op = "split" /\ any_selected(pre.axes) /\ ValidSplit) =>
        LET ns == selected_names(pre.axes)
            k  == Len(ns)
            m  == Len(pre.axes)
        IN  /\ ~ret.raised
            /\ Len(axes) = m + k
            /\ \A i \in 1..m :
                  LET a0 == pre.axes[i].a
                      r  == split(a0, last.args[1], last.args[2],
                                  last.args[3], pre.figsize)
                  IN  /\ axes[i].name = pre.axes[i].name
                      /\ ~a0.selected => axes[i].a = a0
                      /\ a0.selected => axes[i].a = r.self
            /\ \A j \in 1..k :
                  LET a0 == Item(pre.axes, ns[j])
                      r  == split(a0, last.args[1], last.args[2],
                                  last.args[3], pre.figsize)
                      a  == axes[m + j].a
                  IN  /\ bounds(a) = bounds(r.new[1])
                      /\ get_anchor(a) = get_anchor(a0)
                      /\ a.selected = a0.selected

\* the places, in the selected names before the split, of the entries for
\* which split raises: spacing is not below the size along the split axis
FailingPlaces ==
    LET ns == selected_names(pre.axes)
    IN  {i \in DOMAIN ns :
            Ge(last.args[2], IF last.args[3] THEN get_w(Item(pre.axes, ns[i]))
                                             ELSE get_h(Item(pre.axes, ns[i])))}

\* C21: a split from the action menu works entry by entry without
\* rollback: when split raises for some selected entry, every selected
\* entry before it stays shrunk with its second part present in the set,
\* while the failing entry and every later selected entry keep their bounds
\* and get no new entry.
C21_SplitNoRollback ==
    (/\ last.op = "split"
     /\ any_selected(pre.axes)
     /\ Ge(last.args[1], Zero)
     /\ Ge(One, last.args[1])
     /\ FailingPlaces # {}) =>
        LET ns == selected_names(pre.axes)
            j  == CHOOSE i \in FailingPlaces : \A k \in FailingPlaces : i <= k
            m  == Len(pre.axes)
        IN  /\ Len(axes) = m + (j - 1)
            /\ \A i \in 1..(j - 1) :
                  LET r == split(Item(pre.axes, ns[i]), last.args[1],
                                 last.args[2], last.args[3], pre.figsize)
                  IN  /\ Item(axes, ns[i]) = r.self
                      /\ bounds(axes[m + i].a) = bounds(r.new[1])
            /\ \A i \in j..Len(ns) :
                  Item(axes, ns[i]) = Item(pre.axes, ns[i])

----------------------------------------------------------------------------
(* Claims about set_anchor, checked under SpecAnchor *)

\* v is a string, not a tuple
IsName(v) == v \in AnchorNames \/ v \in OtherNames

\* a pair of numbers: the coefficients of a preset or another numeric pair
IsAnchorPair(c) ==
    /\ ~IsName(c)
    /\ c \in {coefs(n) : n \in AnchorNames} \cup AnchorPairs

\* neither the name of a preset nor a pair of numbers
InvalidAnchor(v) ==
    IF IsName(v) THEN v \in OtherNames ELSE v \in OtherTuples

\* C22: set_anchor fails with an error when handed an unrecognized anchor
\* name or a value that is not a pair of numbers, and then leaves the
\* rectangle's anchor and bounds as they were; only the coefficients of
\* named presets and numeric pairs are ever stored as the anchor.
C22_SetAnchorRejectsInvalid ==
    /\ IsAnchorPair(get_anchor(p))
    /\ (last.op = "set_anchor" /\ InvalidAnchor(last.args[1])) =>
          /\ ret.raised
          /\ p = pre.p

----------------------------------------------------------------------------
(* Claims about set_property, checked under SpecProperty *)

SupportedProperties == {"x", "y", "w", "h", "aspect", "selected"}

\* C23: set_property(name, attr, value) dispatches only to x, y, w, h,
\* aspect and selected: attr 'selected' changes the entry's selection flag
\* as selected, selected_names and any_selected see it; an unsupported attr
\* fails and leaves the entry unchanged; a name that is not in the set
\* fails with KeyError and leaves the set unchanged.
C23_SetPropertyDispatch ==
    last.op = "set_property" =>
        LET n    == last.args[1]
            attr == last.args[2]
        IN  /\ n \notin NameSet(pre.axes) =>
                  /\ ret.raised
                  /\ ret.exc = "KeyError"
                  /\ axes = pre.axes
            /\ (n \in NameSet(pre.axes) /\ attr = "selected") =>
                  /\ ~ret.raised
                  /\ Item(axes, n).selected = last.args[3]
                  /\ (n \in Range(selected_names(axes))) = last.args[3]
                  /\ last.args[3] => any_selected(axes)
            /\ (n \in NameSet(pre.axes) /\ attr \notin SupportedProperties) =>
                  /\ ret.raised
                  /\ axes = pre.axes

\* C26: change_order never loses or duplicates an entry: after any call,
\* returning or raising, a repeated name in the input included, the set
\* holds the names it held before on the same rectangles, and the
\* assertions inside change_order never fail.
C26_ReorderNeverLoses ==
    last.op = "change_order" =>
        /\ ret.exc # "AssertionError"
        /\ Len(axes) = Len(pre.axes)
        /\ NameSet(axes) = NameSet(pre.axes)
        /\ \A n \in NameSet(pre.axes) :
              n \in NameSet(axes) /\ Item(axes, n) = Item(pre.axes, n)

----------------------------------------------------------------------------
(* Claims about dragging rows, checked under SpecMove *)

\* the names of s at the 0-based indices that satisfy Keep, in the order of s
NamesAt(s, Keep(_)) ==
    LET idx == SelectSeq([i \in 1 .. Len(s) |-> i - 1], Keep)
    IN  [j \in DOMAIN idx |-> names(s)[idx[j] + 1]]

\* C30: move_axes(rows, ind) on n entries, rows within 0..n-1 and ind in
\* 0..n: when ind or ind-1 is one of the rows the order is unchanged;
\* otherwise the sequence handed to change_order is a permutation of the
\* current names, change_order does not raise, and the new order is the
\* unmoved entries with index < ind in their old order, then the moved
\* entries in their old relative order, then the unmoved entries with
\* index >= ind in their old order.
C30_MoveAxesOrder ==
    last.op = "move_axes" =>
        LET rows == last.args[1]
            ind  == last.args[2]
        IN  IF ind \in rows \/ (ind - 1) \in rows
            THEN /\ ~ret.called
                 /\ axes = pre.axes
            ELSE /\ ret.called
                 /\ IsPermutation(ret.passed, pre.axes)
                 /\ ~ret.raised
                 /\ names(axes) =
                        NamesAt(pre.axes, LAMBDA v : v \notin rows /\ v < ind)
                        \o NamesAt(pre.axes, LAMBDA v : v \in rows)
                        \o NamesAt(pre.axes,
                                   LAMBDA v : v \notin rows /\ v >= ind)
                 /\ \A n \in NameSet(pre.axes) :
                       Item(axes, n) = Item(pre.axes, n)

C30_Witness ==
    /\ last.op = "move_axes"
    /\ last.args = <<{1}, 0>>
    /\ names(pre.axes) = <<"A", "B", "C">>
    /\ names(axes) = <<"B", "A", "C">>
    /\ ~ret.raised

----------------------------------------------------------------------------
(* Claims about whole editing sessions, checked under SpecSession *)

\* C28: after any sequence of editor operations (add_axes,
\* add_axes_at_position, update_anchor, delete, reorder, the align and
\* equal actions, join, split) every entry's anchor coefficient pair equals
\* the coefficient pair of the set's anchor setting.
C28_SharedAnchor ==
    \A i \in DOMAIN axes : get_anchor(axes[i].a) = coefs(anchor)

C28_Witness ==
    /\ last.op = "join"
    /\ pre.anchor = "NE"
    /\ Len(axes) = 1
    /\ Len(pre.axes) = 3
    /\ get_anchor(axes[1].a) = coefs("NE")
    /\ anchor = "NE"

----------------------------------------------------------------------------
(* Claims about the out-of-process round trip, checked under SpecStream *)

\* C25: position_axes_gui_subprocess(figsize, bounds) returns the figure
\* size and the list of absolute bounds the editor held when it exited,
\* one entry of four numbers per rectangle in collection order: every line
\* the child writes is parsed as a figure-size line or as four numbers,
\* and with no edits in the editor the returned bounds are the bounds sent.
C25_StreamRoundTrip ==
    (proc.mode = "subprocess" /\ proc.parent \in {"returned", "raised"}) =>
        /\ proc.parent = "returned"
        /\ \A i \in DOMAIN proc.stdout :
              \/ proc.stdout[i].fig
              \/ Len(proc.stdout[i].fields) = 4 /\ Parses(proc.stdout[i])
        /\ proc.child = "exited"
        /\ proc.result[2] = [i \in DOMAIN axes |-> bounds(axes[i].a)]
        /\ steps = 0 => proc.result[2] = proc.sent

============================================================================
